---- MODULE Spec2Model ----
(***************************************************************************)
(* A model of convert-pth-to-ggml.py: the conversion of a (possibly        *)
(* multi-part) LLaMA checkpoint into one ggjt file.  The output file is a  *)
(* sequence of bytes with an explicit cursor; every write of the script    *)
(* is a write into that sequence at the cursor.                            *)
(*                                                                         *)
(* Text is a sequence of Unicode code points; str.encode() is UTF-8.       *)
(* struct.pack("i", v) is the 4-byte little-endian two's complement image  *)
(* of v (the native layout of the platforms the script is run on).         *)
(* The bytes of a tensor's data buffer are opaque: byte i of the buffer    *)
(* that part k holds for the t-th tensor is the token DataByte(t, k, i),   *)
(* a number above 255, so that it is told apart from every byte the        *)
(* script computes itself and from every other data byte.                  *)
(***************************************************************************)
EXTENDS Integers, Sequences, FiniteSets, TLC

\* ------------------------------------------------------------------------
\* Bounds of the model
\* ------------------------------------------------------------------------

\* Largest vocabulary (number of tokenizer entries) explored.
MaxVocab == 2

\* Largest number of tensors in one checkpoint part explored.
MaxTensors == 2

\* Largest dimension of the shapes ggml_nbytes is applied to on its own (the
\* block width and its double are explored as well).
MaxDim == 8

\* Largest number of name fragments of the names split_dim is decided for on
\* its own.
MaxFragments == 3

\* ------------------------------------------------------------------------
\* The type registry (module-level tables of the script)
\* ------------------------------------------------------------------------

QK == 32

GGML_TYPE_Q4_0 == 0

GGML_TYPE_Q4_1 == 1

GGML_TYPE_I8 == 2

GGML_TYPE_I16 == 3

GGML_TYPE_I32 == 4

GGML_TYPE_F16 == 5

GGML_TYPE_F32 == 6

WTYPES ==
  [f \in 0..3 |-> CASE f = 0 -> GGML_TYPE_F32
                    [] f = 1 -> GGML_TYPE_F16
                    [] f = 2 -> GGML_TYPE_Q4_0
                    [] f = 3 -> GGML_TYPE_Q4_1]

GGML_BLCK_SIZE ==
  [t \in 0..6 |-> IF t \in {GGML_TYPE_Q4_0, GGML_TYPE_Q4_1} THEN QK ELSE 1]

GGML_TYPE_SIZE ==
  [t \in 0..6 |-> CASE t = GGML_TYPE_Q4_0 -> 4 + (QK \div 2)
                    [] t = GGML_TYPE_Q4_1 -> 4 * 2 + (QK \div 2)
                    [] t = GGML_TYPE_I8   -> 1
                    [] t = GGML_TYPE_I16  -> 2
                    [] t = GGML_TYPE_I32  -> 4
                    [] t = GGML_TYPE_F16  -> 2
                    [] t = GGML_TYPE_F32  -> 4]

RECURSIVE ggml_nelements(_)
ggml_nelements(shape) ==
  IF shape = <<>> THEN 1 ELSE Head(shape) * ggml_nelements(Tail(shape))

\* A size that forgets the division by the block width.
ggml_nbytes_noBlock(shape, ftype) ==
  ggml_nelements(shape) * GGML_TYPE_SIZE[WTYPES[ftype]]

ggml_nbytes(shape, ftype) ==
  LET t == WTYPES[ftype]
  IN  (ggml_nelements(shape) * GGML_TYPE_SIZE[t]) \div GGML_BLCK_SIZE[t]

\* ------------------------------------------------------------------------
\* Bytes, text and the output file
\* ------------------------------------------------------------------------

\* struct.pack("i", v)
PackI(v) ==
  << v % 256, (v \div 256) % 256, (v \div 65536) % 256, (v \div 16777216) % 256 >>

\* struct.pack("B", v)
PackB(v) == << v >>

RECURSIVE Flatten(_)
Flatten(ss) == IF ss = <<>> THEN <<>> ELSE Head(ss) \o Flatten(Tail(ss))

\* One code point as UTF-8.
Utf8Char(c) ==
  IF c < 128 THEN << c >>
  ELSE IF c < 2048 THEN << 192 + (c \div 64), 128 + (c % 64) >>
  ELSE IF c < 65536
       THEN << 224 + (c \div 4096), 128 + ((c \div 64) % 64), 128 + (c % 64) >>
       ELSE << 240 + (c \div 262144), 128 + ((c \div 4096) % 64),
               128 + ((c \div 64) % 64), 128 + (c % 64) >>

\* str.encode()
Encode(s) == Flatten([i \in 1..Len(s) |-> Utf8Char(s[i])])

\* str.replace(old, new) for single characters: every occurrence.
Replace(s, old, new) == [i \in 1..Len(s) |-> IF s[i] = old THEN new ELSE s[i]]

\* sub in s
Contains(s, sub) ==
  \E i \in 0..(Len(s) - Len(sub)) : SubSeq(s, i + 1, i + Len(sub)) = sub

\* A test for the whole name instead of its end.
EndsWith_exact(s, suffix) == s = suffix

\* s.endswith(suffix)
EndsWith(s, suffix) ==
  /\ Len(s) >= Len(suffix)
  /\ SubSeq(s, Len(s) - Len(suffix) + 1, Len(s)) = suffix

RECURSIVE ReverseSeq(_)
ReverseSeq(s) == IF s = <<>> THEN <<>> ELSE ReverseSeq(Tail(s)) \o << Head(s) >>

\* fout.write(bytes) with the cursor at offset p (0-based): the bytes replace
\* what the file holds at p..p+len-1 and extend it when they reach past its
\* end; a gap left by a seek past the end reads as zero bytes.
WriteAt(f, p, bytes) ==
  LET n    == Len(bytes)
      gap  == IF p > Len(f) THEN [i \in 1..(p - Len(f)) |-> 0] ELSE << >>
      head == IF p > Len(f) THEN f ELSE SubSeq(f, 1, p)
      tail == IF p + n < Len(f) THEN SubSeq(f, p + n + 1, Len(f)) ELSE << >>
  IN  IF n = 0 THEN f ELSE head \o gap \o bytes \o tail

\* The bytes the file holds at offsets p..p+n-1 (those inside the file).
ReadAt(f, p, n) == SubSeq(f, p + 1, IF p + n > Len(f) THEN Len(f) ELSE p + n)

\* Byte i (0-based) of the data buffer part k holds for the t-th tensor.
DataByte(t, k, i) == 256 + ((t * 8 + k) * 256 + i)

\* numpy's tofile of elements first..first+count-1 (of width w) of that buffer.
DataBytes(t, k, first, count, w) ==
  [i \in 1..(count * w) |-> DataByte(t, k, first * w + i - 1)]

\* ------------------------------------------------------------------------
\* Text constants of the script
\* ------------------------------------------------------------------------

\* "freqs"
S_freqs == <<102, 114, 101, 113, 115>>

\* "tok_embeddings"
S_tok_embeddings == <<116, 111, 107, 95, 101, 109, 98, 101, 100, 100, 105, 110, 103, 115>>

\* "layers"
S_layers == <<108, 97, 121, 101, 114, 115>>

\* "attention.wo.weight"
S_attention_wo_weight ==
  <<97, 116, 116, 101, 110, 116, 105, 111, 110, 46, 119, 111, 46, 119, 101, 105, 103, 104, 116>>

\* "feed_forward.w2.weight"
S_feed_forward_w2_weight ==
  <<102, 101, 101, 100, 95, 102, 111, 114, 119, 97, 114, 100, 46, 119, 50, 46, 119, 101,
    105, 103, 104, 116>>

\* "output"
S_output == <<111, 117, 116, 112, 117, 116>>

\* " ⁇ " : space, U+2047, space
S_unknown == <<32, 8263, 32>>

\* U+2581, the word-boundary marker of the tokenizer
C_marker == 9601

\* " "
C_space == 32

\* 0x67676a74, "ggjt"
GGJT_MAGIC == 1734830708

\* ------------------------------------------------------------------------
\* write_header
\* ------------------------------------------------------------------------

\* A header whose hyperparameters follow the order dim, multiple_of, n_heads,
\* n_layers, vocab_size.
HeaderValues_dimFirst(hp, ftype) ==
  << GGJT_MAGIC, 1,
     hp.dim, hp.multiple_of, hp.n_heads, hp.n_layers, hp.vocab_size,
     hp.dim \div hp.n_heads,
     ftype >>

HeaderValues(hp, ftype) ==
  << GGJT_MAGIC, 1,
     hp.vocab_size, hp.dim, hp.multiple_of, hp.n_heads, hp.n_layers,
     hp.dim \div hp.n_heads,
     ftype >>

\* The bytes write_header writes: struct.pack("i" * len(values), *values).
write_header(hp, ftype) ==
  LET values == HeaderValues(hp, ftype)
  IN  Flatten([i \in 1..Len(values) |-> PackI(values[i])])

\* ------------------------------------------------------------------------
\* write_tokens: the text of one vocabulary entry
\* ------------------------------------------------------------------------

\* The value of one hexadecimal digit, -1 for any other character.
HexDigit(c) ==
  IF c >= 48 /\ c <= 57 THEN c - 48
  ELSE IF c >= 97 /\ c <= 102 THEN c - 87
  ELSE IF c >= 65 /\ c <= 70 THEN c - 55
  ELSE -1

\* int(s, 16) for a string of hexadecimal digits; -1 where int() raises.
RECURSIVE IntBase16(_)
IntBase16(s) ==
  IF s = <<>> THEN -1
  ELSE LET d == HexDigit(s[Len(s)])
       IN  IF d < 0 THEN -1
           ELSE IF Len(s) = 1 THEN d
           ELSE LET r == IntBase16(SubSeq(s, 1, Len(s) - 1))
                IN  IF r < 0 THEN -1 ELSE r * 16 + d

\* The choice of text with the byte test made before the control test.
TokenText_byteFirst(e) ==
  IF e.is_unknown THEN [ok |-> TRUE, text |-> Encode(S_unknown)]
  ELSE IF e.is_byte
       THEN IF Len(e.piece) # 6 THEN [ok |-> FALSE, text |-> <<>>]
            ELSE [ok |-> TRUE,
                  text |-> PackB(IntBase16(SubSeq(e.piece, 4, Len(e.piece) - 1)))]
  ELSE IF e.is_control THEN [ok |-> TRUE, text |-> <<>>]
  ELSE [ok |-> TRUE, text |-> Encode(Replace(e.piece, C_marker, C_space))]

\* The choice of text without the test of the length of a byte piece.
TokenText_noLenCheck(e) ==
  IF e.is_unknown THEN [ok |-> TRUE, text |-> Encode(S_unknown)]
  ELSE IF e.is_control THEN [ok |-> TRUE, text |-> <<>>]
  ELSE IF e.is_byte
       THEN LET byte_value == IntBase16(SubSeq(e.piece, 4, Len(e.piece) - 1))
            IN  IF byte_value < 0 \/ byte_value > 255
                THEN [ok |-> FALSE, text |-> <<>>]
                ELSE [ok |-> TRUE, text |-> PackB(byte_value)]
       ELSE [ok |-> TRUE, text |-> Encode(Replace(e.piece, C_marker, C_space))]

\* One iteration of the loop of write_tokens up to the choice of text:
\* [ok |-> FALSE] where the script exits or raises, else the text bytes.
TokenText(e) ==
  IF e.is_unknown THEN [ok |-> TRUE, text |-> Encode(S_unknown)]
  ELSE IF e.is_control THEN [ok |-> TRUE, text |-> <<>>]
  ELSE IF e.is_byte
       THEN IF Len(e.piece) # 6 THEN [ok |-> FALSE, text |-> <<>>]
            ELSE LET byte_value == IntBase16(SubSeq(e.piece, 4, Len(e.piece) - 1))
                 IN  IF byte_value < 0 \/ byte_value > 255
                     THEN [ok |-> FALSE, text |-> <<>>]
                     ELSE [ok |-> TRUE, text |-> PackB(byte_value)]
       ELSE [ok |-> TRUE, text |-> Encode(Replace(e.piece, C_marker, C_space))]

\* A record with the score written first.
TokenRecord_scoreFirst(e) ==
  LET text == TokenText(e).text
  IN  e.score \o PackI(Len(text)) \o text

\* The record of one entry: length, text, score.
TokenRecord(e) ==
  LET text == TokenText(e).text
  IN  PackI(Len(text)) \o text \o e.score

\* ------------------------------------------------------------------------
\* get_n_parts
\* ------------------------------------------------------------------------

\* A lookup that falls back to one part for an unknown dim.
get_n_parts_default(dim) ==
  CASE dim = 4096 -> 1
    [] dim = 5120 -> 2
    [] dim = 6656 -> 4
    [] dim = 8192 -> 8
    [] OTHER -> 1

\* mappings.get(dim); 0 stands for None.
get_n_parts(dim) ==
  CASE dim = 4096 -> 1
    [] dim = 5120 -> 2
    [] dim = 6656 -> 4
    [] dim = 8192 -> 8
    [] OTHER -> 0

\* ------------------------------------------------------------------------
\* process_and_write_variables: one iteration of its loop
\* ------------------------------------------------------------------------

\* numpy's squeeze: the axes of length 1 are dropped.
Squeeze(shape) == SelectSeq(shape, LAMBDA d : d # 1)

\* An encoding choice that forgets the rank.
FtypeCur_noRank(ftype, n_dims) == IF ftype = 0 THEN 0 ELSE 1

\* A rank test that lets rank 3 through.
RankOk_upTo3(n_dims) == n_dims \in {1, 2, 3}

\* assert n_dims in (1, 2)
RankOk(n_dims) == n_dims \in {1, 2}

\* ftype_cur: 0 (float32) or 1 (float16).
FtypeCur(ftype, n_dims) == IF ftype = 0 \/ n_dims = 1 THEN 0 ELSE 1

\* The width in bytes of one element of `data` when it is written: 4 after
\* data.astype(np.float32), else the width the part delivers (datao.dtype).
ItemSize(ftype, n_dims, itemsize) == IF ftype = 0 \/ n_dims = 1 THEN 4 ELSE itemsize

\* The rules with the test for "output" made before the test for "layers".
SplitDim_outputFirst(name) ==
  IF Contains(name, S_tok_embeddings) THEN 1
  ELSE IF Contains(name, S_output) THEN 0
  ELSE IF Contains(name, S_layers)
       THEN IF Contains(name, S_attention_wo_weight) THEN 1
            ELSE IF Contains(name, S_feed_forward_w2_weight) THEN 1
            ELSE 0
  ELSE 1

\* split_dim of a tensor of rank 2.
SplitDim(name) ==
  IF Contains(name, S_tok_embeddings) THEN 1
  ELSE IF Contains(name, S_layers)
       THEN IF Contains(name, S_attention_wo_weight) THEN 1
            ELSE IF Contains(name, S_feed_forward_w2_weight) THEN 1
            ELSE 0
  ELSE IF Contains(name, S_output) THEN 0
  ELSE 1

\* The record header: n_dims, len(sname), ftype_cur, the dimensions reversed,
\* the name.
VariableHeader(name, partshape, ftype_cur) ==
  LET sname == Encode(name)
      rdims == ReverseSeq(partshape)
  IN  PackI(Len(partshape)) \o PackI(Len(sname)) \o PackI(ftype_cur)
      \o Flatten([i \in 1..Len(rdims) |-> PackI(rdims[i])])
      \o sname

\* A padding loop that aligns to half of QK.
RECURSIVE PadCount_half(_)
PadCount_half(off) ==
  IF off % (QK \div 2) # 0 THEN 1 + PadCount_half(off + 1) ELSE 0

\* The number of iterations of the padding loop started at offset off.
RECURSIVE PadCount(_)
PadCount(off) == IF off % QK # 0 THEN 1 + PadCount(off + 1) ELSE 0

\* The bytes the padding loop writes.
Padding(off) == [i \in 1..PadCount(off) |-> 0]

\* The offset the script seeks to after the data of a tensor.
EndOfRecord(tensor_data_offset, partshape, ftype_cur) ==
  tensor_data_offset + ggml_nbytes(partshape, ftype_cur)

\* The data writes of one tensor, in order: each is [off, bytes], the offset
\* being where the cursor is when tofile is called.
DataWrites(t, partshape, ftype_cur, itemsize, split_dim, tensor_data_offset, part_id, nparts) ==
  LET n_dims    == Len(partshape)
      blck_size == GGML_BLCK_SIZE[WTYPES[ftype_cur]]
      type_size == GGML_TYPE_SIZE[WTYPES[ftype_cur]]
  IN  IF n_dims = 1 \/ nparts = 1
      THEN IF part_id = 0
           THEN << [off   |-> tensor_data_offset,
                    bytes |-> DataBytes(t, part_id, 0, ggml_nelements(partshape),
                                        itemsize)] >>
           ELSE << >>
      ELSE IF split_dim = 0
      THEN LET rows_per_chunk == partshape[1]
               current_row    == part_id * rows_per_chunk
               bytes_per_row  == (partshape[2] \div blck_size) * type_size
               offset         == current_row * bytes_per_row
           IN  << [off   |-> tensor_data_offset + offset,
                   bytes |-> DataBytes(t, part_id, 0, ggml_nelements(partshape),
                                       itemsize)] >>
      ELSE LET cols_per_chunk     == partshape[2]
               current_col        == part_id * cols_per_chunk
               bytes_per_row      == (partshape[2] \div blck_size) * type_size
               offset_current_col == (current_col \div blck_size) * type_size
           IN  [r \in 1..partshape[1] |->
                  [off   |-> tensor_data_offset + (r - 1) * bytes_per_row
                                                + offset_current_col,
                   bytes |-> DataBytes(t, part_id, (r - 1) * partshape[2],
                                       partshape[2], itemsize)]]

\* The file after a sequence of writes, each at its own offset.
RECURSIVE ApplyWrites(_, _)
ApplyWrites(f, ws) ==
  IF ws = <<>> THEN f
  ELSE ApplyWrites(WriteAt(f, Head(ws).off, Head(ws).bytes), Tail(ws))

\* One iteration of the loop over model.items(), for the t-th tensor of the
\* part, with the file f and the cursor at p.  status is "skip" (a name
\* ending in "freqs"), "fatal" (the assertion on the rank fails) or "ok";
\* rec keeps the values of the iteration's local variables.
ProcessVariable(f, p, t, tensor, sel, part_id, nparts) ==
  LET partshape == Squeeze(tensor.shape)
      n_dims    == Len(partshape)
      ftype_cur == FtypeCur(sel, n_dims)
      itemsize  == ItemSize(sel, n_dims, tensor.itemsize)
      split_dim == IF n_dims > 1 THEN SplitDim(tensor.name) ELSE -1
      hdr       == VariableHeader(tensor.name, partshape, ftype_cur)
      name_end  == p + Len(hdr)
      pad       == Padding(name_end)
      tensor_data_offset == name_end + PadCount(name_end)
      writes    == DataWrites(t, partshape, ftype_cur, itemsize, split_dim,
                              tensor_data_offset, part_id, nparts)
      f1        == WriteAt(WriteAt(f, p, hdr), name_end, pad)
      end_pos   == EndOfRecord(tensor_data_offset, partshape, ftype_cur)
  IN  IF EndsWith(tensor.name, S_freqs)
      THEN [status |-> "skip", f |-> f, pos |-> p, rec |-> << >>]
      ELSE IF ~RankOk(n_dims)
      THEN [status |-> "fatal", f |-> f, pos |-> p, rec |-> << >>]
      ELSE [status |-> "ok",
            f      |-> ApplyWrites(f1, writes),
            pos    |-> end_pos,
            rec    |-> << [part_id   |-> part_id,
                           t         |-> t,
                           name      |-> tensor.name,
                           partshape |-> partshape,
                           n_dims    |-> n_dims,
                           ftype_cur |-> ftype_cur,
                           itemsize  |-> itemsize,
                           split_dim |-> split_dim,
                           hdr_off   |-> p,
                           hdr       |-> hdr,
                           name_end  |-> name_end,
                           pad       |-> pad,
                           tensor_data_offset |-> tensor_data_offset,
                           writes    |-> writes,
                           end_pos   |-> end_pos] >>]

\* process_and_write_variables for one part, from tensor t on: the file
\* it leaves ("fatal" does not arise for the checkpoints it is used on).
RECURSIVE process_and_write_variables(_, _, _, _, _, _, _)
process_and_write_variables(f, p, t, model, sel, part, nparts) ==
  IF t > Len(model) THEN f
  ELSE LET r == ProcessVariable(f, p, t, model[t], sel, part, nparts)
       IN  IF r.status = "fatal" THEN f
           ELSE process_and_write_variables(r.f, r.pos, t + 1, model, sel, part, nparts)

\* The loop of main over the parts, taken in the given order: before each
\* part the cursor is set to offset.
RECURSIVE RunParts(_, _, _, _, _, _)
RunParts(f, offset, order, model, sel, nparts) ==
  IF order = << >> THEN f
  ELSE RunParts(process_and_write_variables(f, offset, 1, model, sel, Head(order), nparts),
                offset, Tail(order), model, sel, nparts)

\* ------------------------------------------------------------------------
\* Inputs: the parameter file, the tokenizer, the checkpoint parts
\* ------------------------------------------------------------------------

\* params.json of the four published model sizes and one of another width.
\* vocab_size is -1 in the published files.
ParamsFiles ==
  { [dim |-> 4096, multiple_of |-> 256, n_heads |-> 32, n_layers |-> 2, vocab_size |-> -1],
    [dim |-> 5120, multiple_of |-> 256, n_heads |-> 40, n_layers |-> 3, vocab_size |-> -1],
    [dim |-> 6656, multiple_of |-> 256, n_heads |-> 52, n_layers |-> 4, vocab_size |-> -1],
    [dim |-> 8192, multiple_of |-> 256, n_heads |-> 64, n_layers |-> 5, vocab_size |-> -1],
    [dim |-> 1234, multiple_of |-> 128, n_heads |-> 32, n_layers |-> 6, vocab_size |-> 7] }

\* The selector of the command line: choices=[0, 1, 2].
Ftypes == {0, 1, 2}

\* Scores as the four bytes struct.pack("f", score) yields: 0.0 and -1.0.
Score0 == <<0, 0, 0, 0>>

ScoreM1 == <<0, 0, 128, 191>>

Entry(u, c, b, piece, score) ==
  [is_unknown |-> u, is_control |-> c, is_byte |-> b, piece |-> piece, score |-> score]

\* Vocabulary entries: "<unk>" unknown, "<s>" control, "<0x41>" byte,
\* "▁a▁b" normal, "<0x4>" byte (5 characters), and an entry for which the
\* tokenizer answers yes to all three questions, with the piece "<0x4>".
VocabList ==
  << Entry(TRUE,  FALSE, FALSE, <<60, 117, 110, 107, 62>>, Score0),
     Entry(FALSE, TRUE,  FALSE, <<60, 115, 62>>, Score0),
     Entry(FALSE, FALSE, TRUE,  <<60, 48, 120, 52, 49, 62>>, ScoreM1),
     Entry(FALSE, FALSE, FALSE, <<9601, 97, 9601, 98>>, ScoreM1),
     Entry(FALSE, FALSE, TRUE,  <<60, 48, 120, 52, 62>>, Score0),
     Entry(TRUE,  TRUE,  TRUE,  <<60, 48, 120, 52, 62>>, ScoreM1),
     Entry(FALSE, TRUE,  TRUE,  <<60, 48, 120, 69, 57, 62>>, Score0),
     Entry(FALSE, FALSE, TRUE,  <<60, 48, 120, 69, 57, 62>>, Score0) >>

\* The n elements of the list s from position a on, cyclically.
Window(s, a, n) == [i \in 1..n |-> s[((a + i - 2) % Len(s)) + 1]]

Windows(s, max) ==
  { Window(s, a, n) : a \in 1..Len(s), n \in 1..max }

\* The tokenizers explored: up to MaxVocab consecutive entries of VocabList.
Tokenizers == { << >> } \cup Windows(VocabList, MaxVocab)

Tensor(name, shape, itemsize) == [name |-> name, shape |-> shape, itemsize |-> itemsize]

\* Tensors of a part: name, shape as stored, width of one stored element.
\*   layers.0.attention.wq.weight    (2,3)   float16
\*   norm.weight                     (3,)    float16
\*   layers.0.feed_forward.w2.weight (2,2,2) float16
\*   layers.0.attention.wo.weight    (2,2)   float16
\*   rope.freqs                      (2,)    float16
\*   tok_embeddings.weight           (2,1,2) float16
\*   norm.weight                     (1,1)   float16
\*   output.weight                   (2,2)   float32
TensorList ==
  << Tensor(<<108, 97, 121, 101, 114, 115, 46, 48, 46, 97, 116, 116, 101, 110, 116, 105,
              111, 110, 46, 119, 113, 46, 119, 101, 105, 103, 104, 116>>, <<2, 3>>, 2),
     Tensor(<<110, 111, 114, 109, 46, 119, 101, 105, 103, 104, 116>>, <<3>>, 2),
     Tensor(<<108, 97, 121, 101, 114, 115, 46, 48, 46, 102, 101, 101, 100, 95, 102, 111,
              114, 119, 97, 114, 100, 46, 119, 50, 46, 119, 101, 105, 103, 104, 116>>,
            <<2, 2, 2>>, 2),
     Tensor(<<108, 97, 121, 101, 114, 115, 46, 48, 46, 97, 116, 116, 101, 110, 116, 105,
              111, 110, 46, 119, 111, 46, 119, 101, 105, 103, 104, 116>>, <<2, 2>>, 2),
     Tensor(<<114, 111, 112, 101, 46, 102, 114, 101, 113, 115>>, <<2>>, 2),
     Tensor(<<116, 111, 107, 95, 101, 109, 98, 101, 100, 100, 105, 110, 103, 115, 46, 119,
              101, 105, 103, 104, 116>>, <<2, 1, 2>>, 2),
     Tensor(<<110, 111, 114, 109, 46, 119, 101, 105, 103, 104, 116>>, <<1, 1>>, 2),
     Tensor(<<111, 117, 116, 112, 117, 116, 46, 119, 101, 105, 103, 104, 116>>, <<2, 2>>, 4) >>

\* The checkpoints explored: every part holds the same tensors (names, shapes
\* and element widths) in the same order, up to MaxTensors consecutive
\* entries of TensorList; the parts differ in the data.
Checkpoints == Windows(TensorList, MaxTensors)

\* ------------------------------------------------------------------------
\* State
\* ------------------------------------------------------------------------

VARIABLES
  ftype,             \* args.ftype
  vocab_only,        \* args.vocab_only
  params,            \* the content of params.json
  tokenizer,         \* the entries of tokenizer.model
  hparams,           \* hparams of main
  pc,                \* where main is
  fname_out,         \* the output file opened: "" while none is
  fout,              \* the bytes of the output file
  pos,               \* the cursor of fout
  n_parts,           \* n_parts of main (0 before get_n_parts)
  offset_of_tensors, \* offset_of_tensors of main
  part_id,           \* part_id of the loop of main
  checkpoint,        \* the tensors every part file holds
  tix,               \* the position of the loop over model.items(), from 1
  tok_i,             \* i of the loop of write_tokens
  toks,              \* per vocabulary record written: what the iteration computed
  recs               \* per tensor record written: what the iteration computed

\* A single application of ggml_nbytes or of the split_dim rules, apart from
\* any run of main.
VARIABLES
  call_fn,           \* the function applied: "" (none), "ggml_nbytes", "split_dim"
  call_shape,        \* shape given to ggml_nbytes
  call_ftype,        \* ftype given to ggml_nbytes: a key of WTYPES
  call_frags,        \* the fragments of the name given to the split_dim rules
  call_result        \* what the function returned, -1 before it has

calls == << call_fn, call_shape, call_ftype, call_frags, call_result >>

vars ==
  << ftype, vocab_only, params, tokenizer, hparams, pc, fname_out, fout, pos, n_parts,
     offset_of_tensors, part_id, checkpoint, tix, tok_i, toks, recs, calls >>

main_vars ==
  << ftype, vocab_only, params, tokenizer, hparams, pc, fname_out, fout, pos, n_parts,
     offset_of_tensors, part_id, checkpoint, tix, tok_i, toks, recs >>

args == << ftype, vocab_only, params, tokenizer >>

\* No function is applied on its own.
NoCall ==
  /\ call_fn = ""
  /\ call_shape = << >>
  /\ call_ftype = 0
  /\ call_frags = << >>
  /\ call_result = -1

Init ==
  /\ NoCall
  /\ ftype \in Ftypes
  /\ vocab_only \in BOOLEAN
  /\ params \in ParamsFiles
  /\ tokenizer \in Tokenizers
  /\ hparams = params
  /\ pc = "start"
  /\ fname_out = ""
  /\ fout = << >>
  /\ pos = 0
  /\ n_parts = 0
  /\ offset_of_tensors = 0
  /\ part_id = 0
  /\ checkpoint = << >>
  /\ tix = 0
  /\ tok_i = 0
  /\ toks = << >>
  /\ recs = << >>

\* ------------------------------------------------------------------------
\* Steps of main
\* ------------------------------------------------------------------------

\* load_hparams_and_tokenizer: vocab_size is the tokenizer's.
LoadHparamsAndTokenizer ==
  /\ pc = "start"
  /\ hparams' = [params EXCEPT !.vocab_size = Len(tokenizer)]
  /\ pc' = "main"
  /\ UNCHANGED << args, fname_out, fout, pos, n_parts, offset_of_tensors, part_id,
                  checkpoint, tix, tok_i, toks, recs >>

\* if args.vocab_only: open(fname_out, "wb")
OpenVocabOnly ==
  /\ pc = "main"
  /\ vocab_only
  /\ fname_out' = "ggml-vocab.bin"
  /\ fout' = << >>
  /\ pos' = 0
  /\ pc' = "header"
  /\ UNCHANGED << args, hparams, n_parts, offset_of_tensors, part_id, checkpoint, tix,
                  tok_i, toks, recs >>

\* n_parts = get_n_parts(hparams["dim"]): sys.exit(1) for an unknown dim.
GetNParts ==
  /\ pc = "main"
  /\ ~vocab_only
  /\ LET n == get_n_parts(hparams.dim)
     IN  IF n = 0
         THEN /\ pc' = "exit"
              /\ UNCHANGED n_parts
         ELSE /\ pc' = "open"
              /\ n_parts' = n
  /\ UNCHANGED << args, hparams, fname_out, fout, pos, offset_of_tensors, part_id,
                  checkpoint, tix, tok_i, toks, recs >>

\* with open(fname_out, "wb") as fout
OpenModel ==
  /\ pc = "open"
  /\ fname_out' = "ggml-model.bin"
  /\ fout' = << >>
  /\ pos' = 0
  /\ pc' = "header"
  /\ UNCHANGED << args, hparams, n_parts, offset_of_tensors, part_id, checkpoint, tix,
                  tok_i, toks, recs >>

\* write_header(fout, hparams, ftype)
WriteHeader ==
  /\ pc = "header"
  /\ LET bytes == write_header(hparams, ftype)
     IN  /\ fout' = WriteAt(fout, pos, bytes)
         /\ pos' = pos + Len(bytes)
  /\ tok_i' = 0
  /\ pc' = "tokens"
  /\ UNCHANGED << args, hparams, fname_out, n_parts, offset_of_tensors, part_id,
                  checkpoint, tix, toks, recs >>

\* One iteration of the loop of write_tokens.
WriteToken ==
  /\ pc = "tokens"
  /\ tok_i < Len(tokenizer)
  /\ LET e == tokenizer[tok_i + 1]
         r == TokenText(e)
         bytes == TokenRecord(e)
     IN  IF r.ok
         THEN /\ fout' = WriteAt(fout, pos, bytes)
              /\ pos' = pos + Len(bytes)
              /\ toks' = Append(toks, [i |-> tok_i, off |-> pos, text |-> r.text,
                                       bytes |-> bytes])
              /\ tok_i' = tok_i + 1
              /\ pc' = "tokens"
         ELSE /\ pc' = "exit"
              /\ UNCHANGED << fout, pos, toks, tok_i >>
  /\ UNCHANGED << args, hparams, fname_out, n_parts, offset_of_tensors, part_id,
                  checkpoint, tix, recs >>

\* An end of write_tokens that goes on to the parts whatever the flag.
TokensDone_fallThrough ==
  /\ pc = "tokens"
  /\ tok_i = Len(tokenizer)
  /\ offset_of_tensors' = pos
  /\ part_id' = 0
  /\ pc' = "part"
  /\ UNCHANGED << args, hparams, fname_out, fout, pos, n_parts, checkpoint, tix, tok_i,
                  toks, recs >>

\* The loop of write_tokens ends: vocabulary-only runs are done, the others
\* note offset_of_tensors = fout.tell().
TokensDone ==
  /\ pc = "tokens"
  /\ tok_i = Len(tokenizer)
  /\ IF vocab_only
     THEN /\ pc' = "done"
          /\ UNCHANGED << offset_of_tensors, part_id >>
     ELSE /\ offset_of_tensors' = pos
          /\ part_id' = 0
          /\ pc' = "part"
  /\ UNCHANGED << args, hparams, fname_out, fout, pos, n_parts, checkpoint, tix, tok_i,
                  toks, recs >>

\* The head of an iteration that leaves the cursor where the last part ended.
LoadPart_noSeek ==
  /\ pc = "part"
  /\ part_id < n_parts
  /\ IF part_id = 0
     THEN checkpoint' \in Checkpoints
     ELSE UNCHANGED checkpoint
  /\ tix' = 1
  /\ pc' = "tensors"
  /\ UNCHANGED << args, hparams, fname_out, fout, pos, n_parts, offset_of_tensors,
                  part_id, tok_i, toks, recs >>

\* The head of one iteration of `for part_id in range(n_parts)`:
\* fout.seek(offset_of_tensors); model = torch.load(...).
LoadPart ==
  /\ pc = "part"
  /\ part_id < n_parts
  /\ pos' = offset_of_tensors
  /\ IF part_id = 0
     THEN checkpoint' \in Checkpoints
     ELSE UNCHANGED checkpoint
  /\ tix' = 1
  /\ pc' = "tensors"
  /\ UNCHANGED << args, hparams, fname_out, fout, n_parts, offset_of_tensors, part_id,
                  tok_i, toks, recs >>

\* One iteration of the loop of process_and_write_variables.
ProcessAndWriteVariable ==
  /\ pc = "tensors"
  /\ tix <= Len(checkpoint)
  /\ LET r == ProcessVariable(fout, pos, tix, checkpoint[tix], ftype, part_id, n_parts)
     IN  IF r.status = "fatal"
         THEN /\ pc' = "exit"
              /\ UNCHANGED << fout, pos, recs, tix >>
         ELSE /\ fout' = r.f
              /\ pos' = r.pos
              /\ recs' = recs \o r.rec
              /\ tix' = tix + 1
              /\ pc' = "tensors"
  /\ UNCHANGED << args, hparams, fname_out, n_parts, offset_of_tensors, part_id,
                  checkpoint, tok_i, toks >>

\* process_and_write_variables returns; del model.
PartDone ==
  /\ pc = "tensors"
  /\ tix > Len(checkpoint)
  /\ part_id' = part_id + 1
  /\ pc' = "part"
  /\ UNCHANGED << args, hparams, fname_out, fout, pos, n_parts, offset_of_tensors,
                  checkpoint, tix, tok_i, toks, recs >>

\* The loop over the parts ends and the file is closed.
Finish ==
  /\ pc = "part"
  /\ part_id = n_parts
  /\ pc' = "done"
  /\ UNCHANGED << args, hparams, fname_out, fout, pos, n_parts, offset_of_tensors,
                  part_id, checkpoint, tix, tok_i, toks, recs >>

Next ==
  /\ UNCHANGED calls
  /\ \/ LoadHparamsAndTokenizer
     \/ OpenVocabOnly
     \/ GetNParts
     \/ OpenModel
     \/ WriteHeader
     \/ WriteToken
     \/ TokensDone
     \/ LoadPart
     \/ ProcessAndWriteVariable
     \/ PartDone
     \/ Finish

Spec == Init /\ [][Next]_vars

\* ------------------------------------------------------------------------
\* ggml_nbytes and the split_dim rules applied on their own
\* ------------------------------------------------------------------------

\* "norm"
S_norm == <<110, 111, 114, 109>>

\* "0"
S_0 == <<48>>

\* The fragments names are built of: the five markers of the split_dim rules
\* and two fragments that are none.
Fragments ==
  { S_tok_embeddings, S_layers, S_attention_wo_weight, S_feed_forward_w2_weight,
    S_output, S_norm, S_0 }

\* The fragments joined by ".", as in "layers.0.attention.wo.weight".
RECURSIVE Join(_)
Join(frags) ==
  IF frags = << >> THEN << >>
  ELSE IF Len(frags) = 1 THEN frags[1]
  ELSE frags[1] \o <<46>> \o Join(Tail(frags))

FragmentSeqs == UNION { [1..n -> Fragments] : n \in 1..MaxFragments }

\* The dimensions explored: 1..MaxDim, the block width and its double.
Dims == (1..MaxDim) \cup {QK, 2 * QK}

\* Shapes of rank 1 and 2.
Shapes == { <<a>> : a \in Dims } \cup { <<a, b>> : a \in Dims, b \in Dims }

InitCalls ==
  /\ ftype = 0
  /\ vocab_only = FALSE
  /\ params = CHOOSE q \in ParamsFiles : q.dim = 4096
  /\ tokenizer = << >>
  /\ hparams = params
  /\ pc = "start"
  /\ fname_out = ""
  /\ fout = << >>
  /\ pos = 0
  /\ n_parts = 0
  /\ offset_of_tensors = 0
  /\ part_id = 0
  /\ checkpoint = << >>
  /\ tix = 0
  /\ tok_i = 0
  /\ toks = << >>
  /\ recs = << >>
  /\ call_result = -1
  /\ \/ /\ call_fn = "ggml_nbytes"
        /\ call_shape \in Shapes
        /\ call_ftype \in DOMAIN WTYPES
        /\ call_frags = << >>
     \/ /\ call_fn = "split_dim"
        /\ call_frags \in FragmentSeqs
        /\ call_shape = << >>
        /\ call_ftype = 0

\* x = ggml_nbytes(shape, ftype)
CallNbytes ==
  /\ call_fn = "ggml_nbytes"
  /\ call_result = -1
  /\ call_result' = ggml_nbytes(call_shape, call_ftype)
  /\ UNCHANGED << call_fn, call_shape, call_ftype, call_frags >>

\* The split_dim rules applied to a name.
CallSplitDim ==
  /\ call_fn = "split_dim"
  /\ call_result = -1
  /\ call_result' = SplitDim(Join(call_frags))
  /\ UNCHANGED << call_fn, call_shape, call_ftype, call_frags >>

NextCalls ==
  /\ UNCHANGED main_vars
  /\ \/ CallNbytes
     \/ CallSplitDim

SpecCalls == InitCalls /\ [][NextCalls]_vars

\* ------------------------------------------------------------------------
\* Reading the file back
\* ------------------------------------------------------------------------

\* The 4-byte little-endian integer the file holds at offset off.
Int32At(f, off) ==
  f[off + 1] + 256 * f[off + 2] + 65536 * f[off + 3] + 16777216 * f[off + 4]

\* The rank numpy's squeeze leaves: the number of axes longer than 1.
RankOf(shape) == Cardinality({i \in 1..Len(shape) : shape[i] # 1})

\* The header has been written.
HeaderWritten == fname_out # "" /\ pc # "header"

KnownDims == {4096, 5120, 6656, 8192}

\* ------------------------------------------------------------------------
\* Claims
\* ------------------------------------------------------------------------

\* All passes over the parts have completed.
AllPartsDone == pc = "done" /\ ~vocab_only

\* The bytes of one row of a tensor record in its encoding.
RowBytes(r) ==
  (r.partshape[2] * GGML_TYPE_SIZE[WTYPES[r.ftype_cur]])
    \div GGML_BLCK_SIZE[WTYPES[r.ftype_cur]]

\* The data of record r is delivered in the element width of its encoding
\* (always so for a converted tensor; for an unconverted one when the part
\* stores it as float16).
WidthMatches(r) == r.itemsize = GGML_TYPE_SIZE[WTYPES[r.ftype_cur]]

\* The buffer part k holds for the tensor of record r.
PartBuffer(r, k) == DataBytes(r.t, k, 0, ggml_nelements(r.partshape), r.itemsize)

\* The unsharded shape of the tensor of record r: the split axis of a
\* partitioned rank-2 tensor times the number of parts.
FullShape(r) ==
  IF r.n_dims = 2 /\ n_parts > 1
  THEN IF r.split_dim = 0
       THEN << r.partshape[1] * n_parts, r.partshape[2] >>
       ELSE << r.partshape[1], r.partshape[2] * n_parts >>
  ELSE r.partshape

\* The orders of the parts 0..n-1 compared: every order for up to four parts,
\* for more the exchanges of two parts of the sequential order and its reverse.
Orders(n) ==
  IF n <= 4
  THEN { o \in [1..n -> 0..(n - 1)] : \A a, b \in 1..n : a # b => o[a] # o[b] }
  ELSE { [i \in 1..n |-> IF i = a THEN b - 1 ELSE IF i = b THEN a - 1 ELSE i - 1] :
           a \in 1..n, b \in 1..n }
       \cup { [i \in 1..n |-> n - i] }

\* C1 (row-split reconstruction): with more than one part, once all passes
\* have completed, the body of every rank-2 tensor split along axis 0, of
\* per-part shape (R, C), holds at body start + k * R * bytes_per_row the
\* row-major buffer of part k, for every part k.  (Stated for the tensors
\* whose data has the element width of the encoding.)
C1_RowSplitReconstruction ==
  (AllPartsDone /\ n_parts > 1) =>
    \A i \in 1..Len(recs) :
      LET r == recs[i]
          chunk == r.partshape[1] * RowBytes(r)
      IN  (r.n_dims = 2 /\ r.split_dim = 0 /\ WidthMatches(r)) =>
            \A k \in 0..(n_parts - 1) :
              ReadAt(fout, r.tensor_data_offset + k * chunk, chunk) = PartBuffer(r, k)

\* C2 (column-split reconstruction): with more than one part N, once all
\* passes have completed, the body of every rank-2 tensor split along axis 1,
\* of per-part shape (R, C), holds the C elements of row r of part k at
\* body start + r * (N * C * elem_size) + k * C * elem_size.  (Stated for the
\* tensors whose data has the element width of the encoding.)
C2_ColumnSplitReconstruction ==
  (AllPartsDone /\ n_parts > 1) =>
    \A i \in 1..Len(recs) :
      LET r == recs[i]
          slice == RowBytes(r)
      IN  (r.n_dims = 2 /\ r.split_dim = 1 /\ WidthMatches(r)) =>
            \A k \in 0..(n_parts - 1), row \in 0..(r.partshape[1] - 1) :
              ReadAt(fout, r.tensor_data_offset + row * (n_parts * slice) + k * slice, slice)
                = DataBytes(r.t, k, row * r.partshape[2], r.partshape[2], r.itemsize)

\* C3 (shard-order insensitivity): the file left by the passes over the parts
\* is the same whichever order the parts are taken in.  (Stated for the
\* checkpoints whose data has the element width of the encoding.)
C3_ShardOrderInsensitive ==
  (AllPartsDone /\ \A i \in 1..Len(recs) : WidthMatches(recs[i])) =>
    \A o \in Orders(n_parts) :
      RunParts(SubSeq(fout, 1, offset_of_tensors), offset_of_tensors, o, checkpoint,
               ftype, n_parts) = fout

\* C4 (end-of-record cursor): after every tensor of every pass the cursor is
\* at body start + total_body_bytes(full shape, encoding), the full shape
\* being the unsharded one.
C4_EndOfRecordCursor ==
  /\ \A i \in 1..Len(recs) :
       LET r == recs[i]
       IN  r.end_pos = r.tensor_data_offset + ggml_nbytes(FullShape(r), r.ftype_cur)
  /\ (pc = "tensors" /\ tix > 1 /\ recs # << >> /\ recs[Len(recs)].t = tix - 1) =>
       pos = recs[Len(recs)].end_pos

\* C8 (rank-1 / single-part body ownership): for a tensor of rank 1, or any
\* tensor when there is one part, only the pass of part 0 writes data, and
\* once all passes have completed the body holds the buffer of part 0.
\* (Stated for the tensors whose data has the element width of the encoding.)
C8_BodyOwnership ==
  /\ \A i \in 1..Len(recs) :
       LET r == recs[i]
       IN  (r.n_dims = 1 \/ n_parts = 1) => (r.part_id # 0 => r.writes = << >>)
  /\ AllPartsDone =>
       \A i \in 1..Len(recs) :
         LET r == recs[i]
         IN  ((r.n_dims = 1 \/ n_parts = 1) /\ WidthMatches(r)) =>
               ReadAt(fout, r.tensor_data_offset, Len(PartBuffer(r, 0))) = PartBuffer(r, 0)

\* C5 (alignment): for every tensor record written in every pass, the body
\* start is a multiple of 32, not below the offset just after the name bytes
\* and less than 32 above it (so it is the smallest such multiple); the
\* padding loop wrote that many bytes, at most 31, all of them zero, and the
\* file holds them between the name and the body.
C5_Alignment ==
  /\ \A i \in 1..Len(recs) :
       LET r == recs[i]
       IN  /\ r.name_end = r.hdr_off + Len(r.hdr)
           /\ r.tensor_data_offset % 32 = 0
           /\ r.tensor_data_offset >= r.name_end
           /\ r.tensor_data_offset - r.name_end <= 31
           /\ Len(r.pad) = r.tensor_data_offset - r.name_end
           /\ \A j \in 1..Len(r.pad) : r.pad[j] = 0
  /\ recs # << >> =>
       LET r == recs[Len(recs)]
       IN  ReadAt(fout, r.name_end, r.tensor_data_offset - r.name_end)
             = [j \in 1..(r.tensor_data_offset - r.name_end) |-> 0]

\* A record of a half-precision tensor and a record of a full-precision one,
\* both with padding, one of them with the full 31 bytes, in a later pass.
C5_Witness ==
  /\ \E i \in 1..Len(recs) :
       /\ recs[i].ftype_cur = 1 /\ recs[i].part_id > 0 /\ Len(recs[i].pad) > 16
  /\ \E i \in 1..Len(recs) :
       /\ recs[i].ftype_cur = 0 /\ Len(recs[i].pad) > 0

C7_HeaderLayoutAsStated ==
  HeaderWritten =>
    /\ Len(fout) >= 36
    /\ Int32At(fout, 0) = 1734830708
    /\ Int32At(fout, 4) = 1
    /\ Int32At(fout, 8) = hparams.dim
    /\ Int32At(fout, 12) = hparams.multiple_of
    /\ Int32At(fout, 16) = hparams.n_heads
    /\ Int32At(fout, 20) = hparams.n_layers
    /\ Int32At(fout, 24) = Len(tokenizer)
    /\ Int32At(fout, 28) = hparams.dim \div hparams.n_heads
    /\ Int32At(fout, 32) = ftype

\* C7 as amended: the header is nine 4-byte integers in the order magic,
\* version (1), vocab_size, embedding_dim, multiple_of, head_count,
\* layer_count, rot = embedding_dim div head_count, selector; write_header
\* writes these 36 bytes and nothing else.
C7_HeaderLayout ==
  /\ HeaderWritten =>
       /\ Len(fout) >= 36
       /\ Int32At(fout, 0) = 1734830708
       /\ Int32At(fout, 4) = 1
       /\ Int32At(fout, 8) = Len(tokenizer)
       /\ Int32At(fout, 12) = params.dim
       /\ Int32At(fout, 16) = params.multiple_of
       /\ Int32At(fout, 20) = params.n_heads
       /\ Int32At(fout, 24) = params.n_layers
       /\ Int32At(fout, 28) = params.dim \div params.n_heads
       /\ Int32At(fout, 32) = ftype
  /\ (pc = "tokens" /\ tok_i = 0) => (Len(fout) = 36 /\ pos = 36)

\* The header of a run whose embedding dimension does not divide evenly by
\* the head count, with a vocabulary of two entries.
C7_Witness ==
  /\ HeaderWritten
  /\ pc = "tokens"
  /\ tok_i = 0
  /\ Len(tokenizer) = 2
  /\ params.dim % params.n_heads # 0

\* C9 as stated (shard-count lookup and configuration error): 4096, 5120,
\* 6656, 8192 map to 1, 2, 4, 8 parts, and a run with any other embedding
\* dimension opens no output file, writes no byte and does not complete.
C9_ConfigurationErrorAsStated ==
  /\ n_parts # 0 =>
       /\ hparams.dim = 4096 => n_parts = 1
       /\ hparams.dim = 5120 => n_parts = 2
       /\ hparams.dim = 6656 => n_parts = 4
       /\ hparams.dim = 8192 => n_parts = 8
  /\ params.dim \notin KnownDims =>
       /\ fname_out = ""
       /\ fout = << >>
       /\ pc # "done"

\* C9 as amended: 4096, 5120, 6656, 8192 map to 1, 2, 4, 8 parts; a run
\* without the vocabulary-only flag whose embedding dimension is any other
\* value ends at get_n_parts in the fatal state, with no output file opened
\* and no byte written.
C9_ConfigurationError ==
  /\ (~vocab_only /\ pc \notin {"start", "main", "exit"}) =>
       /\ params.dim \in KnownDims
       /\ params.dim = 4096 => n_parts = 1
       /\ params.dim = 5120 => n_parts = 2
       /\ params.dim = 6656 => n_parts = 4
       /\ params.dim = 8192 => n_parts = 8
  /\ (~vocab_only /\ params.dim \notin KnownDims) =>
       /\ pc \in {"start", "main", "exit"}
       /\ fname_out = ""
       /\ fout = << >>
       /\ pos = 0
       /\ n_parts = 0

\* A run without the vocabulary-only flag and with an unknown embedding
\* dimension that has reached its fatal end.
C9_Witness ==
  /\ ~vocab_only
  /\ params.dim \notin KnownDims
  /\ pc = "exit"

\* The value of the two hexadecimal digits at positions 4 and 5 of a piece.
C10_HexPair(piece) ==
  LET digits == <<48, 49, 50, 51, 52, 53, 54, 55, 56, 57, 65, 66, 67, 68, 69, 70>>
      val(c) == CHOOSE v \in 0..15 : digits[v + 1] = c
  IN  16 * val(piece[4]) + val(piece[5])

\* The piece is "<0xHH>" with two upper-case hexadecimal digits.
C10_IsHexForm(piece) ==
  /\ Len(piece) = 6
  /\ SubSeq(piece, 1, 3) = <<60, 48, 120>>
  /\ piece[6] = 62
  /\ \A j \in {4, 5} : piece[j] \in (48..57) \cup (65..70)

\* C10 (vocabulary text encoding): the text of every vocabulary record
\* written is, by category with priority unknown > control > byte > normal:
\* space, U+2047, space (in UTF-8) for an unknown entry whatever its piece;
\* empty for a control entry; the one byte 0xHH for a byte entry whose piece
\* is "<0xHH>"; the UTF-8 of the piece with every U+2581 replaced by a space
\* for a normal entry.  The record in the file is the length, then the text.
C10_VocabularyText ==
  \A n \in 1..Len(toks) :
    LET tk == toks[n]
        e  == tokenizer[tk.i + 1]
    IN  /\ e.is_unknown => tk.text = <<32, 226, 129, 135, 32>>
        /\ (~e.is_unknown /\ e.is_control) => tk.text = << >>
        /\ (~e.is_unknown /\ ~e.is_control /\ e.is_byte /\ C10_IsHexForm(e.piece)) =>
             tk.text = << C10_HexPair(e.piece) >>
        /\ (~e.is_unknown /\ ~e.is_control /\ ~e.is_byte) =>
             /\ tk.text = Encode([j \in 1..Len(e.piece) |->
                                    IF e.piece[j] = 9601 THEN 32 ELSE e.piece[j]])
             /\ e.piece = <<9601, 97, 9601, 98>> => tk.text = <<32, 97, 32, 98>>
        /\ Int32At(fout, tk.off) = Len(tk.text)
        /\ ReadAt(fout, tk.off + 4, Len(tk.text)) = tk.text

\* A vocabulary whose two records are those of an entry that is both control
\* and byte, and of a byte entry "<0xE9>".
C10_Witness ==
  /\ Len(toks) = 2
  /\ LET e1 == tokenizer[1]
         e2 == tokenizer[2]
     IN  /\ ~e1.is_unknown /\ e1.is_control /\ e1.is_byte
         /\ ~e2.is_unknown /\ ~e2.is_control /\ e2.is_byte
         /\ toks[2].text = <<233>>

\* ------------------------------------------------------------------------
\* Claims C11..C19
\* ------------------------------------------------------------------------

\* The name ends in "freqs".
C11_IsFreqs(name) ==
  /\ Len(name) >= 5
  /\ << name[Len(name) - 4], name[Len(name) - 3], name[Len(name) - 2],
        name[Len(name) - 1], name[Len(name)] >> = <<102, 114, 101, 113, 115>>

\* Where the records of a part are placed, in order, from offset p on: name,
\* header offset, body start and end of each record up to the first tensor
\* the run stops at (the part holds no tensor that is skipped).
RECURSIVE C11_Layout(_, _, _)
C11_Layout(p, model, sel) ==
  IF model = << >> THEN << >>
  ELSE LET x         == Head(model)
           partshape == Squeeze(x.shape)
           ftype_cur == FtypeCur(sel, Len(partshape))
           name_end  == p + Len(VariableHeader(x.name, partshape, ftype_cur))
           tensor_data_offset == name_end + PadCount(name_end)
           end_pos   == EndOfRecord(tensor_data_offset, partshape, ftype_cur)
       IN  IF ~RankOk(Len(partshape)) THEN << >>
           ELSE << [name    |-> x.name,
                    hdr_off |-> p,
                    tensor_data_offset |-> tensor_data_offset,
                    end_pos |-> end_pos] >>
                \o C11_Layout(end_pos, Tail(model), sel)

\* The records of pass k, reduced to their placement.
C11_PassLayout(k) ==
  LET rs == SelectSeq(recs, LAMBDA r : r.part_id = k)
  IN  [n \in 1..Len(rs) |->
         [name    |-> rs[n].name,
          hdr_off |-> rs[n].hdr_off,
          tensor_data_offset |-> rs[n].tensor_data_offset,
          end_pos |-> rs[n].end_pos]]

\* The state part of C11: no record bears a name ending in "freqs", and the
\* records of every pass are placed where they are placed for the part
\* without its tensors of such names.
C11_AsIfAbsent ==
  /\ \A n \in 1..Len(recs) : ~C11_IsFreqs(recs[n].name)
  /\ \A k \in 0..part_id :
       LET absent == SelectSeq(checkpoint, LAMBDA x : ~C11_IsFreqs(x.name))
           want   == C11_Layout(offset_of_tensors, absent, ftype)
           got    == C11_PassLayout(k)
       IN  /\ Len(got) <= Len(want)
           /\ got = SubSeq(want, 1, Len(got))

\* C11 (frequency-table exclusion): in every pass over a part, the step
\* that meets a tensor whose name ends in "freqs" writes no byte, leaves the
\* cursor where it is and adds no record, and goes on to the next tensor; so
\* no record bears such a name and the records of the other tensors are
\* placed exactly as for a part that does not hold it.
C11_FreqsExclusion ==
  /\ []C11_AsIfAbsent
  /\ [][ (pc = "tensors" /\ tix <= Len(checkpoint) /\ C11_IsFreqs(checkpoint[tix].name)) =>
            /\ fout' = fout
            /\ pos' = pos
            /\ recs' = recs
            /\ tix' = tix + 1
            /\ pc' = "tensors" ]_vars

\* A part holding rope.freqs and then tok_embeddings.weight: the second pass
\* has placed the record of the latter, at the start of the tensor records.
C11_Witness ==
  /\ Len(checkpoint) = 2
  /\ C11_IsFreqs(checkpoint[1].name)
  /\ \E n \in 1..Len(recs) :
       /\ recs[n].part_id = 1
       /\ recs[n].t = 2
       /\ recs[n].hdr_off = offset_of_tensors

\* The bytes of the vocabulary records written so far, in order.
VocabularyWritten == Flatten([n \in 1..Len(toks) |-> toks[n].bytes])

\* C12 (vocabulary-only mode): with the vocabulary-only flag set the run goes
\* from the header to the vocabulary to its end; no part is loaded, no tensor
\* record is written, and the finished file is the header followed by the
\* vocabulary records and nothing else.
C12_VocabularyOnly ==
  vocab_only =>
    /\ pc \in {"start", "main", "header", "tokens", "done", "exit"}
    /\ checkpoint = << >>
    /\ recs = << >>
    /\ n_parts = 0
    /\ HeaderWritten => fout = write_header(hparams, ftype) \o VocabularyWritten
    /\ pc = "done" =>
         /\ fname_out = "ggml-vocab.bin"
         /\ Len(toks) = Len(tokenizer)
         /\ Len(fout) = 36 + Len(VocabularyWritten)

\* A finished vocabulary-only run with two vocabulary records.
C12_Witness ==
  /\ vocab_only
  /\ pc = "done"
  /\ Len(toks) = 2
  /\ Len(fout) > 36

\* A byte entry (not unknown, not control) whose piece is not 6 long.
C13_Malformed(e) == ~e.is_unknown /\ ~e.is_control /\ e.is_byte /\ Len(e.piece) # 6

\* The index (from 1) of the first such entry of the tokenizer, 0 if none.
C13_FirstMalformed ==
  IF \E n \in 1..Len(tokenizer) : C13_Malformed(tokenizer[n])
  THEN CHOOSE n \in 1..Len(tokenizer) :
         /\ C13_Malformed(tokenizer[n])
         /\ \A m \in 1..(n - 1) : ~C13_Malformed(tokenizer[m])
  ELSE 0

\* The state part of C13.
C13_NothingAfter ==
  LET b == C13_FirstMalformed
  IN  b > 0 =>
        /\ tok_i < b
        /\ Len(toks) < b
        /\ recs = << >>
        /\ checkpoint = << >>
        /\ pc \notin {"part", "tensors", "done"}
        /\ HeaderWritten => fout = write_header(hparams, ftype) \o VocabularyWritten
        /\ (pc = "exit" /\ fname_out # "") =>
             /\ Len(toks) = b - 1
             /\ \A n \in 1..(b - 1) : toks[n].bytes = TokenRecord(tokenizer[n])

\* C13 (malformed byte token): when write_tokens comes to a byte entry (not
\* unknown, not control) whose piece is not exactly 6 long, the run aborts at
\* that entry: the records of the earlier entries are in the file in full,
\* and no byte of this entry's record, of a later vocabulary record or of
\* a tensor record is ever written.
C13_MalformedByteToken ==
  /\ []C13_NothingAfter
  /\ [][ (C13_FirstMalformed > 0 /\ pc = "tokens" /\ tok_i = C13_FirstMalformed - 1) =>
            /\ pc' = "exit"
            /\ fout' = fout
            /\ pos' = pos
            /\ toks' = toks ]_vars

\* The run has aborted at the second entry, the byte entry "<0x4>", after
\* writing the record of the first.
C13_Witness ==
  /\ pc = "exit"
  /\ Len(tokenizer) = 2
  /\ ~C13_Malformed(tokenizer[1])
  /\ C13_Malformed(tokenizer[2])
  /\ Len(toks) = 1
  /\ Len(fout) = 36 + Len(toks[1].bytes)

\* The index (from 1) of the first tensor of the part that is not skipped
\* and whose rank is neither 1 nor 2, 0 if none.
C14_FirstBadRank ==
  LET bad(t) == ~C11_IsFreqs(checkpoint[t].name) /\ RankOf(checkpoint[t].shape) \notin {1, 2}
  IN  IF \E t \in 1..Len(checkpoint) : bad(t)
      THEN CHOOSE t \in 1..Len(checkpoint) : bad(t) /\ \A u \in 1..(t - 1) : ~bad(u)
      ELSE 0

\* The state part of C14.
C14_NothingAfter ==
  LET b == C14_FirstBadRank
  IN  b > 0 =>
        /\ part_id = 0
        /\ pc # "done"
        /\ tix <= b
        /\ \A n \in 1..Len(recs) : recs[n].part_id = 0 /\ recs[n].t < b

\* C14 (unsupported rank): when a pass comes to a tensor, not skipped as a
\* frequency table, whose rank after squeezing is neither 1 nor 2 (rank 0
\* included), the run aborts there: no byte of the tensor's record is
\* written, and no later tensor and no later part is processed.
C14_UnsupportedRank ==
  /\ []C14_NothingAfter
  /\ [][ (C14_FirstBadRank > 0 /\ pc = "tensors" /\ tix = C14_FirstBadRank) =>
            /\ pc' = "exit"
            /\ fout' = fout
            /\ pos' = pos
            /\ recs' = recs ]_vars

\* The run has aborted at a tensor of shape (1, 1), of rank 0, after writing
\* the record of the tensor before it.
C14_Witness ==
  /\ pc = "exit"
  /\ Len(checkpoint) = 2
  /\ RankOf(checkpoint[2].shape) = 0
  /\ Len(recs) = 1
  /\ recs[1].t = 1

\* The block width of the encoding selected by f: 1 for F32 and F16, 32 for
\* Q4_0 and Q4_1.
C15_BlockWidth(f) == IF f \in {0, 1} THEN 1 ELSE 32

\* The bytes of one block: 4 for F32, 2 for F16, 20 for Q4_0, 24 for Q4_1.
C15_BytesPerBlock(f) ==
  CASE f = 0 -> 4
    [] f = 1 -> 2
    [] f = 2 -> 20
    [] f = 3 -> 24

\* The number of elements of a shape of rank 1 or 2.
C15_Count(shape) == IF Len(shape) = 1 THEN shape[1] ELSE shape[1] * shape[2]

\* C15 (size consistency): for each of the four encodings and every shape
\* of rank 1 or 2 whose number of elements is a multiple of the block width,
\* ggml_nbytes is the number of elements times the bytes of a block divided
\* by the block width, the division leaving no remainder.
C15_SizeConsistency ==
  (call_fn = "ggml_nbytes" /\ call_result # -1) =>
    LET count == C15_Count(call_shape)
        bw    == C15_BlockWidth(call_ftype)
        bpb   == C15_BytesPerBlock(call_ftype)
    IN  count % bw = 0 =>
          /\ (count * bpb) % bw = 0
          /\ call_result * bw = count * bpb

\* ggml_nbytes has been applied to the shape (8, 32) in Q4_1: 8 blocks of
\* 24 bytes.
C15_Witness ==
  /\ call_fn = "ggml_nbytes"
  /\ call_shape = <<8, 32>>
  /\ call_ftype = 3
  /\ call_result = 192

\* The fragment m is one of the fragments of the name.
C16_Has(frags, m) == \E i \in 1..Len(frags) : frags[i] = m

\* The axis the rules give in their priority.
C16_Axis(frags) ==
  IF C16_Has(frags, S_tok_embeddings) THEN 1
  ELSE IF C16_Has(frags, S_layers)
       THEN IF C16_Has(frags, S_attention_wo_weight)
               \/ C16_Has(frags, S_feed_forward_w2_weight)
            THEN 1 ELSE 0
  ELSE IF C16_Has(frags, S_output) THEN 0
  ELSE 1

\* C16 (split-axis rules): split_dim is 1 for a name containing
\* "tok_embeddings"; else, for a name containing "layers", 1 if it contains
\* "attention.wo.weight" or "feed_forward.w2.weight" and 0 if not; else 0
\* for a name containing "output"; else 1.  A name matching several rules
\* takes the axis of the first.
C16_SplitAxis ==
  (call_fn = "split_dim" /\ call_result # -1) => call_result = C16_Axis(call_frags)

\* The rules have been applied to "layers.output.attention.wo.weight": the
\* rule for "layers" decides, the axis is 1.
C16_Witness ==
  /\ call_fn = "split_dim"
  /\ call_frags = << S_layers, S_output, S_attention_wo_weight >>
  /\ call_result = 1

\* C17 (rewind and stable layout): every pass over a part starts with the
\* cursor at offset_of_tensors, the offset just after the vocabulary; and
\* the record of the t-th tensor has the same header offset, the same header
\* bytes, the same padding and the same body start in every pass.
C17_StableLayout ==
  /\ (pc \in {"part", "tensors"} \/ recs # << >>) =>
       offset_of_tensors = 36 + Len(VocabularyWritten)
  /\ (pc = "tensors" /\ tix = 1) => pos = offset_of_tensors
  /\ \A n \in 1..Len(recs) :
       (n = 1 \/ recs[n - 1].part_id # recs[n].part_id) =>
         recs[n].hdr_off = offset_of_tensors
  /\ \A m, n \in 1..Len(recs) :
       recs[m].t = recs[n].t =>
         /\ recs[m].hdr_off = recs[n].hdr_off
         /\ recs[m].hdr = recs[n].hdr
         /\ recs[m].name_end = recs[n].name_end
         /\ recs[m].pad = recs[n].pad
         /\ recs[m].tensor_data_offset = recs[n].tensor_data_offset

\* A later pass has placed the record of the second tensor of the part.
C17_Witness ==
  \E m, n \in 1..Len(recs) :
    /\ recs[m].part_id = 0
    /\ recs[n].part_id >= 1
    /\ recs[m].t = 2
    /\ recs[n].t = 2
    /\ recs[n].hdr_off > offset_of_tensors

\* C18 (vocabulary section): the n-th record written is that of index n-1;
\* the records follow each other from the end of the header on; each is the
\* 4-byte length, then that many bytes of text, then the 4 bytes of the
\* score; and once write_tokens has returned there is one record per entry
\* of the tokenizer, their number being the vocab_size of the header
\* whatever the parameter file says.
C18_VocabularySection ==
  /\ \A n \in 1..Len(toks) :
       LET tk == toks[n]
       IN  /\ tk.i = n - 1
           /\ tk.off = IF n = 1 THEN 36
                       ELSE toks[n - 1].off + 8 + Len(toks[n - 1].text)
           /\ ReadAt(fout, tk.off, 4) = << Len(tk.text), 0, 0, 0 >>
           /\ ReadAt(fout, tk.off + 4, Len(tk.text)) = tk.text
           /\ ReadAt(fout, tk.off + 4 + Len(tk.text), 4) = tokenizer[n].score
  /\ pc \in {"part", "tensors", "done"} =>
       /\ Len(toks) = Len(tokenizer)
       /\ ReadAt(fout, 8, 4) = << Len(tokenizer), 0, 0, 0 >>
       /\ ~vocab_only => offset_of_tensors = 36 + Len(VocabularyWritten)
       /\ vocab_only => Len(fout) = 36 + Len(VocabularyWritten)

\* A finished run over a tokenizer of two entries and a parameter file that
\* gives vocab_size as 7: the header says 2.
C18_Witness ==
  /\ pc = "done"
  /\ params.vocab_size = 7
  /\ Len(tokenizer) = 2
  /\ Len(toks) = 2
  /\ ReadAt(fout, 8, 4) = <<2, 0, 0, 0>>

\* The number of data bytes written for the record r.
RECURSIVE WrittenBytes(_)
WrittenBytes(ws) == IF ws = << >> THEN 0 ELSE Len(Head(ws).bytes) + WrittenBytes(Tail(ws))

\* C19 (body length matches the tag): in a run over a single part, for
\* every tensor, whether the part stores it in 2-byte or 4-byte elements,
\* the number of data bytes written is ggml_nbytes of the shape and the
\* encoding written in the record's header.
C19_BodyLengthMatchesTag ==
  n_parts = 1 =>
    \A n \in 1..Len(recs) :
      WrittenBytes(recs[n].writes) = ggml_nbytes(recs[n].partshape, recs[n].ftype_cur)

====
